---- MODULE Spec2Model ----
(***************************************************************************)
(* Model of the IntakeFlow wizard of DoersLaw                              *)
(* (frontend/src/pages/TalentDashboard.jsx, component IntakeFlow):         *)
(* the question wizard, the deferred auto-advance callbacks, the two       *)
(* submit functions, the network responses, and the two renderings of the  *)
(* analysis result (results view and printable report).                    *)
(*                                                                         *)
(* React state is modelled as the variables below.  A handler runs with    *)
(* the values of the render in which it was created; user events always    *)
(* reach the handlers of the latest render, while a setTimeout callback    *)
(* keeps the values of the render in which handleSelect scheduled it.      *)
(***************************************************************************)
EXTENDS Integers, Sequences, FiniteSets, TLC

(***************************************************************************)
(* Bounds of the model.                                                    *)
(***************************************************************************)
\* options of each question the user chooses among (a prefix of its list)
MaxOptions == 2
\* auto-advance callbacks that may be pending at once
MaxTimers == 2
\* requests that may be outstanding at once
MaxInFlight == 2
\* user events (clicks) that fit into the delay of one auto-advance callback
MaxEventsPerDelay == 2
\* questions kept between the multi-select question and the last one
Between == 1
\* the clock runs from 0 to MaxClock, in half days
MaxClock == 3

(***************************************************************************)
(* JavaScript values stored in the answer map: undefined (key absent),     *)
(* a string, or an array of strings.                                       *)
(***************************************************************************)
Undefined == [t |-> "undefined", s |-> "", a |-> <<>>]
Str(s) == [t |-> "string", s |-> s, a |-> <<>>]
Arr(a) == [t |-> "array", s |-> "", a |-> a]

\* the catalog of the source: id, type and the leading options of each entry
AllQuestions ==
  << [id |-> "location", type |-> "select",
      options |-> <<"Maharashtra", "Karnataka", "Tamil Nadu">>],
     [id |-> "property_type", type |-> "select",
      options |-> <<"Agricultural Land", "Residential Plot/House", "Apartment/Flat">>],
     [id |-> "possession_status", type |-> "select",
      options |-> <<"I am in possession", "The other party is in possession",
                    "It is a vacant lot/open land">>],
     [id |-> "opponent_type", type |-> "select",
      options |-> <<"Family Member/Relative", "Neighbor", "Builder/Developer">>],
     [id |-> "core_issue", type |-> "select",
      options |-> <<"They are blocking my access/pathway",
                    "They have illegally occupied/built on my land",
                    "They created fake documents/sold my land">>],
     [id |-> "ancestral_status", type |-> "select",
      options |-> <<"Ancestral (Grandparents' property)",
                    "Self-Acquired (Bought by me/parents)", "Don't Know">>],
     [id |-> "revenue_records_name", type |-> "select",
      options |-> <<"My name", "Late parent/relative's name", "Opponent's name">>],
     [id |-> "documents_held", type |-> "multiselect",
      options |-> <<"Registered Sale Deed", "Will", "Gift Deed">>],
     [id |-> "police_court_status", type |-> "select",
      options |-> <<"No legal action yet", "Police Complaint filed",
                    "Court Case pending (Summons received)">>],
     [id |-> "immediate_threat", type |-> "select",
      options |-> <<"No immediate threat", "Construction is starting on the land now",
                    "They are threatening physical violence/dispossession">>],
     [id |-> "dispute_start_date", type |-> "select",
      options |-> <<"Less than 3 years ago", "3-12 years ago", "More than 12 years ago">>],
     [id |-> "desired_outcome", type |-> "select",
      options |-> <<"I want to sell and exit", "I want to keep the land and use it",
                    "I just want monetary compensation">>] >>

\* position of the multi-select question in the catalog
MultiPos == CHOOSE i \in 1..Len(AllQuestions) : AllQuestions[i].type = "multiselect"

\* TRUE when the wizard runs over the whole catalog; it never changes
VARIABLE wholeCatalog

\* The catalog the wizard is explored over, in the catalog's order: the whole
\* catalog, or the multi-select question, the Between questions that follow
\* it, and the last question (a single-select one, as in the source).
QUESTIONS ==
  IF wholeCatalog THEN AllQuestions
  ELSE SubSeq(AllQuestions, MultiPos, MultiPos + Between)
         \o <<AllQuestions[Len(AllQuestions)]>>

Ids == {QUESTIONS[i].id : i \in 1..Len(QUESTIONS)}

\* QUESTIONS[i] of the source, i counted from 0
QuestionAt(i) == QUESTIONS[i + 1]

\* the options offered, question.options, cut to MaxOptions
Options(q) == {q.options[i] : i \in 1..(IF MaxOptions < Len(q.options) THEN MaxOptions ELSE Len(q.options))}

ErrorMessage == "Failed to analyze case. Please try again."
Null == "null"

VARIABLES
  currentQuestion,   \* useState(0)
  answers,           \* useState({}): question id -> JavaScript value
  isAnalyzing,       \* useState(false)
  analysisResult,    \* useState(null)
  error,             \* useState(null)
  timers,            \* pending setTimeout callbacks, oldest first
  inflight,          \* fetch calls that have not resolved yet
  route,             \* "/intake" while the component is mounted
  toggled,           \* history: options of the multi-select question clicked an odd number of times
  report,            \* the document last written by the download button
  clock              \* the time new Date() reads, in half days since 1 November 2026, 00:00

\* State of AuthProvider and of the router (App.jsx)
VARIABLES
  user,              \* useState(null)
  isAuthenticated,   \* useState(false)
  isLoading,         \* useState(true)
  sessionStorage,    \* the item 'doer_user' of sessionStorage
  location,          \* location.pathname
  authCall,          \* the login or logout call that is between its two state updates
  authActed          \* history: a login or logout call has completed

appVars == <<user, isAuthenticated, isLoading, sessionStorage, location, authCall, authActed>>

wizardVars ==
  <<wholeCatalog, currentQuestion, answers, isAnalyzing, analysisResult, error,
    timers, inflight, route, toggled, report, clock>>

vars == <<wizardVars, appVars>>

(***************************************************************************)
(* Strings of the analysis result are sequences of characters.             *)
(***************************************************************************)
UpperCase == <<"A","B","C","D","E","F","G","H","I","J","K","L","M",
               "N","O","P","Q","R","S","T","U","V","W","X","Y","Z">>
LowerCase == <<"a","b","c","d","e","f","g","h","i","j","k","l","m",
               "n","o","p","q","r","s","t","u","v","w","x","y","z">>
Digits == <<"0","1","2","3","4","5","6","7","8","9">>

IsDigit(c) == \E i \in 1..10 : Digits[i] = c
DigitValue(c) == (CHOOSE i \in 1..10 : Digits[i] = c) - 1

\* String.prototype.toLowerCase
toLowerCase(s) ==
  [i \in 1..Len(s) |->
     IF \E k \in 1..26 : UpperCase[k] = s[i]
     THEN LowerCase[CHOOSE k \in 1..26 : UpperCase[k] = s[i]]
     ELSE s[i]]

\* String.prototype.includes
includes(s, sub) ==
  \E i \in 0..(Len(s) - Len(sub)) : SubSeq(s, i + 1, i + Len(sub)) = sub

\* parseInt of a string of decimal digits
RECURSIVE parseInt(_)
parseInt(d) ==
  IF d = <<>> THEN 0
  ELSE 10 * parseInt(SubSeq(d, 1, Len(d) - 1)) + DigitValue(d[Len(d)])

\* the longest run of digits of s that starts at position i
RECURSIVE DigitRun(_, _)
DigitRun(s, i) ==
  IF i <= Len(s) /\ IsDigit(s[i]) THEN <<s[i]>> \o DigitRun(s, i + 1) ELSE <<>>

LevelPrefix == <<"L","e","v","e","l"," ">>

\* the positions at which /Level (\d+)/ matches in s
LevelMatches(s) ==
  {i \in 1..Len(s) :
     /\ i + 6 <= Len(s)
     /\ SubSeq(s, i, i + 5) = LevelPrefix
     /\ IsDigit(s[i + 6])}

\* severityMatch ? parseInt(severityMatch[1]) : 5
severityLevel(tier) ==
  IF LevelMatches(tier) = {} THEN 5
  ELSE LET i == CHOOSE k \in LevelMatches(tier) : \A j \in LevelMatches(tier) : k <= j
       IN parseInt(DigitRun(tier, i + 6))

ViewSeverityClassMutant(result) ==
  LET level == severityLevel(result.severity_tier)
  IN IF level >= 8 THEN "severity-critical"
     ELSE IF level > 6 THEN "severity-high" ELSE "severity-moderate"

\* the class of the severity badge in the results view
ViewSeverityClass(result) ==
  LET level == severityLevel(result.severity_tier)
  IN IF level >= 8 THEN "severity-critical"
     ELSE IF level >= 6 THEN "severity-high" ELSE "severity-moderate"

ReportSeverityClassMutant(result) ==
  LET level == severityLevel(result.severity_tier)
  IN IF level > 8 THEN "severity-critical"
     ELSE IF level >= 6 THEN "severity-high" ELSE "severity-moderate"

\* the class of the severity badge in the report template
ReportSeverityClass(result) ==
  LET level == severityLevel(result.severity_tier)
  IN IF level >= 8 THEN "severity-critical"
     ELSE IF level >= 6 THEN "severity-high" ELSE "severity-moderate"

High == <<"h","i","g","h">>
Immediate == <<"i","m","m","e","d","i","a","t","e">>

ViewUrgencyClassMutant(urgency) ==
  IF includes(toLowerCase(urgency), Immediate) THEN "immediate"
  ELSE IF includes(toLowerCase(urgency), High) THEN "high"
  ELSE "medium"

\* the urgency class of a checklist document in the results view (urgency-<class>)
ViewUrgencyClass(urgency) ==
  IF includes(toLowerCase(urgency), High) THEN "high"
  ELSE IF includes(toLowerCase(urgency), Immediate) THEN "immediate"
  ELSE "medium"

\* the urgency class of a checklist document in the report template
ReportUrgencyClass(urgency) ==
  IF includes(toLowerCase(urgency), High) THEN "high" ELSE ""

Whitespace == {" ", "\t", "\n"}

\* the longest run of whitespace of s that starts at position i
RECURSIVE SpaceRun(_, _)
SpaceRun(s, i) ==
  IF i <= Len(s) /\ s[i] \in Whitespace THEN <<s[i]>> \o SpaceRun(s, i + 1) ELSE <<>>

stripNumeralKeepSpace(step) ==
  LET d == DigitRun(step, 1)
  IN IF Len(d) >= 1 /\ Len(step) > Len(d) /\ step[Len(d) + 1] = "."
     THEN SubSeq(step, Len(d) + 2, Len(step))
     ELSE step

\* step.replace(/^\d+\.\s*/, '')
stripNumeral(step) ==
  LET d == DigitRun(step, 1)
  IN IF Len(d) >= 1 /\ Len(step) > Len(d) /\ step[Len(d) + 1] = "."
     THEN LET w == SpaceRun(step, Len(d) + 2)
          IN SubSeq(step, Len(d) + 2 + Len(w), Len(step))
     ELSE step

\* analysisResult === null
NullResult ==
  [set |-> FALSE, severity_tier |-> <<>>, smart_document_checklist |-> <<>>,
   immediate_next_steps |-> <<>>]
Result(tier, checklist, steps) ==
  [set |-> TRUE, severity_tier |-> tier, smart_document_checklist |-> checklist,
   immediate_next_steps |-> steps]

\* no document written yet by the download button
\* the decimal numeral of n
RECURSIVE Decimal(_)
Decimal(n) ==
  IF n < 10 THEN <<Digits[n + 1]>>
  ELSE Decimal(n \div 10) \o <<Digits[(n % 10) + 1]>>

November2026 == <<" ","N","o","v","e","m","b","e","r"," ","2","0","2","6">>

\* new Date(c).toLocaleDateString('en-IN', { day: 'numeric', month: 'long',
\* year: 'numeric' }) for the clock values of the model
toLocaleDateString(c) == Decimal(1 + (c \div 2)) \o November2026

NoReport ==
  [written |-> FALSE, severity |-> "", urgency |-> <<>>, steps |-> <<>>,
   generated |-> <<>>, of |-> NullResult, at |-> 0]

\* what the written document holds (of and at are history: the result and
\* the clock value the document was generated from)
ReportContent(r) ==
  [severity |-> r.severity, urgency |-> r.urgency, steps |-> r.steps,
   generated |-> r.generated]

ReportDocumentSerial(result) ==
  [written |-> TRUE,
   severity |-> ReportSeverityClass(result),
   urgency |-> [i \in 1..Len(result.smart_document_checklist) |->
                  ReportUrgencyClass(result.smart_document_checklist[i])],
   steps |-> [i \in 1..Len(result.immediate_next_steps) |->
                stripNumeral(result.immediate_next_steps[i])],
   generated |-> toLocaleDateString(clock + (IF report.written THEN 2 ELSE 0)),
   of |-> result,
   at |-> clock]

\* the document the download button writes: the severity badge class, the
\* class of each checklist document's urgency tag, the next steps and the
\* date of generation
ReportDocument(result) ==
  [written |-> TRUE,
   severity |-> ReportSeverityClass(result),
   urgency |-> [i \in 1..Len(result.smart_document_checklist) |->
                  ReportUrgencyClass(result.smart_document_checklist[i])],
   steps |-> [i \in 1..Len(result.immediate_next_steps) |->
                stripNumeral(result.immediate_next_steps[i])],
   generated |-> toLocaleDateString(clock),
   of |-> result,
   at |-> clock]

\* what the results view shows of the same object
ResultsView(result) ==
  [severity |-> ViewSeverityClass(result),
   urgency |-> [i \in 1..Len(result.smart_document_checklist) |->
                  ViewUrgencyClass(result.smart_document_checklist[i])],
   steps |-> [i \in 1..Len(result.immediate_next_steps) |->
                stripNumeral(result.immediate_next_steps[i])]]

(***************************************************************************)
(* The wizard.                                                             *)
(***************************************************************************)
\* const question = QUESTIONS[currentQuestion]
question == QuestionAt(currentQuestion)

\* { ...map, [id]: value }
Put(map, id, value) == [k \in Ids |-> IF k = id THEN value ELSE map[k]]

\* {}
EmptyAnswers == [k \in Ids |-> Undefined]

ArrayIncludesNever(arr, value) == FALSE

\* array.includes(value)
ArrayIncludes(arr, value) == \E i \in 1..Len(arr) : arr[i] = value

FilterOutMutant(arr, value) ==
  IF ArrayIncludes(arr, value) THEN <<value>> ELSE <<>>

\* array.filter(v => v !== value)
RECURSIVE FilterOut(_, _)
FilterOut(arr, value) ==
  IF arr = <<>> THEN <<>>
  ELSE IF arr[1] = value THEN FilterOut(Tail(arr), value)
  ELSE <<arr[1]>> \o FilterOut(Tail(arr), value)

\* answers[question.id] || []
ArrayOrEmpty(value) == IF value.t = "array" THEN value.a ELSE <<>>

\* which of the three returns of the component renders
ShowsResults == analysisResult.set
ShowsLoading == ~analysisResult.set /\ isAnalyzing
ShowsForm == ~analysisResult.set /\ ~isAnalyzing
\* the component is mounted until navigate('/home'); the model follows the
\* wizard no further once it has been left
Mounted == route = "/intake"

isSelected(value) ==
  IF question.type = "multiselect"
  THEN ArrayIncludes(ArrayOrEmpty(answers[question.id]), value)
  ELSE answers[question.id] = Str(value)

canProceedMutant == Len(ArrayOrEmpty(answers[question.id])) > 0

canProceed ==
  IF question.type = "multiselect"
  THEN Len(ArrayOrEmpty(answers[question.id])) > 0
  ELSE answers[question.id].t = "string" /\ answers[question.id].s # ""

\* the fetch of either submit function: one POST with the given body; the
\* request also remembers the wizard state at the call, for the properties
Post(body) ==
  [body |-> body, answersBefore |-> answers, indexBefore |-> currentQuestion]

\* the synchronous part of submitCaseWithAnswer(finalAnswers), up to the await
submitCaseWithAnswer(finalAnswers) ==
  /\ Len(inflight) < MaxInFlight
  /\ isAnalyzing' = TRUE
  /\ error' = Null
  /\ inflight' = Append(inflight, Post(finalAnswers))

\* the synchronous part of submitCase(), up to the await
submitCase ==
  /\ Len(inflight) < MaxInFlight
  /\ isAnalyzing' = TRUE
  /\ error' = Null
  /\ inflight' = Append(inflight, Post(answers))

\* The delay of a callback is 100 ms: a pending callback has fired before
\* more than MaxEventsPerDelay user events have followed its scheduling.
UserEventFits == \A i \in 1..Len(timers) : timers[i].age < MaxEventsPerDelay
Aged(ts) == [i \in 1..Len(ts) |-> [ts[i] EXCEPT !.age = @ + 1]]
\* the user has navigated (Next or Back) while the callbacks ts were pending
Navigated(ts) == [i \in 1..Len(ts) |-> [ts[i] EXCEPT !.navigated = TRUE]]

\* A pending callback: currentQuestion, answers and value are what its closure
\* holds; selected (the answer map as the selection left it), age,
\* failedSince (a request has failed since the selection) and navigated (the
\* user has clicked Next or Back since the selection) are history kept for
\* the properties and the delay.

handleSelectAlwaysDefers(value) ==
  /\ Mounted /\ ShowsForm /\ UserEventFits
  /\ value \in Options(question)
  /\ IF question.type = "multiselect"
     THEN LET current == ArrayOrEmpty(answers[question.id])
          IN /\ IF ArrayIncludes(current, value)
                THEN answers' = Put(answers, question.id, Arr(FilterOut(current, value)))
                ELSE answers' = Put(answers, question.id, Arr(Append(current, value)))
             /\ toggled' = IF value \in toggled THEN toggled \ {value}
                           ELSE toggled \cup {value}
             /\ timers' = Append(Aged(timers), [currentQuestion |-> currentQuestion,
                                                answers |-> answers,
                                                value |-> value,
                                                selected |-> answers,
                                                age |-> 0,
                                                failedSince |-> FALSE,
                                                navigated |-> FALSE])
     ELSE /\ Len(timers) < MaxTimers
          /\ answers' = Put(answers, question.id, Str(value))
          /\ timers' = Append(Aged(timers), [currentQuestion |-> currentQuestion,
                                             answers |-> answers,
                                             value |-> value,
                                             selected |-> Put(answers, question.id, Str(value)),
                                             age |-> 0,
                                             failedSince |-> FALSE,
                                             navigated |-> FALSE])
          /\ UNCHANGED toggled
  /\ UNCHANGED <<currentQuestion, isAnalyzing, analysisResult, error,
                 inflight, route, report>>
  /\ UNCHANGED <<wholeCatalog, clock, appVars>>

\* a click on an option button of the question form
handleSelect(value) ==
  /\ Mounted /\ ShowsForm /\ UserEventFits
  /\ value \in Options(question)
  /\ IF question.type = "multiselect"
     THEN LET current == ArrayOrEmpty(answers[question.id])
          IN /\ IF ArrayIncludes(current, value)
                THEN answers' = Put(answers, question.id, Arr(FilterOut(current, value)))
                ELSE answers' = Put(answers, question.id, Arr(Append(current, value)))
             /\ toggled' = IF value \in toggled THEN toggled \ {value}
                           ELSE toggled \cup {value}
             /\ timers' = Aged(timers)
     ELSE /\ Len(timers) < MaxTimers
          /\ answers' = Put(answers, question.id, Str(value))
          /\ timers' = Append(Aged(timers), [currentQuestion |-> currentQuestion,
                                             answers |-> answers,
                                             value |-> value,
                                             selected |-> Put(answers, question.id, Str(value)),
                                             age |-> 0,
                                             failedSince |-> FALSE,
                                             navigated |-> FALSE])
          /\ UNCHANGED toggled
  /\ UNCHANGED <<currentQuestion, isAnalyzing, analysisResult, error,
                 inflight, route, report>>
  /\ UNCHANGED <<wholeCatalog, clock, appVars>>

TimerFiresRestoresAnswers ==
  /\ Mounted
  /\ timers # <<>>
  /\ LET t == Head(timers)
         q == QuestionAt(t.currentQuestion)
     IN /\ IF t.currentQuestion < Len(QUESTIONS) - 1
           THEN /\ currentQuestion' = t.currentQuestion + 1
                /\ UNCHANGED <<isAnalyzing, error, inflight>>
           ELSE /\ submitCaseWithAnswer(Put(t.answers, q.id, Str(t.value)))
                /\ UNCHANGED currentQuestion
        /\ answers' = Put(t.answers, q.id, Str(t.value))
  /\ timers' = Tail(timers)
  /\ UNCHANGED <<analysisResult, route, toggled, report>>
  /\ UNCHANGED <<wholeCatalog, clock, appVars>>

TimerFiresEarly ==
  /\ Mounted
  /\ timers # <<>>
  /\ LET t == Head(timers)
         q == QuestionAt(t.currentQuestion)
     IN IF t.currentQuestion < Len(QUESTIONS) - 2
        THEN /\ currentQuestion' = t.currentQuestion + 1
             /\ UNCHANGED <<isAnalyzing, error, inflight>>
        ELSE /\ submitCaseWithAnswer(Put(t.answers, q.id, Str(t.value)))
             /\ UNCHANGED currentQuestion
  /\ timers' = Tail(timers)
  /\ UNCHANGED <<answers, analysisResult, route, toggled, report>>
  /\ UNCHANGED <<wholeCatalog, clock, appVars>>

\* the callback handleSelect passed to setTimeout runs: it sees the
\* currentQuestion and answers of the render that scheduled it
TimerFires ==
  /\ Mounted
  /\ timers # <<>>
  /\ LET t == Head(timers)
         q == QuestionAt(t.currentQuestion)
     IN IF t.currentQuestion < Len(QUESTIONS) - 1
        THEN /\ currentQuestion' = t.currentQuestion + 1
             /\ UNCHANGED <<isAnalyzing, error, inflight>>
        ELSE /\ submitCaseWithAnswer(Put(t.answers, q.id, Str(t.value)))
             /\ UNCHANGED currentQuestion
  /\ timers' = Tail(timers)
  /\ UNCHANGED <<answers, analysisResult, route, toggled, report>>
  /\ UNCHANGED <<wholeCatalog, clock, appVars>>

handleNextUnguarded ==
  /\ Mounted /\ ShowsForm /\ UserEventFits
  /\ IF currentQuestion < Len(QUESTIONS) - 1
     THEN /\ currentQuestion' = currentQuestion + 1
          /\ UNCHANGED <<isAnalyzing, error, inflight>>
     ELSE /\ submitCase
          /\ UNCHANGED currentQuestion
  /\ timers' = Navigated(Aged(timers))
  /\ UNCHANGED <<answers, analysisResult, route, toggled, report>>
  /\ UNCHANGED <<wholeCatalog, clock, appVars>>

handleNextNoLastCheck ==
  /\ Mounted /\ ShowsForm /\ UserEventFits
  /\ canProceed
  /\ currentQuestion' = currentQuestion + 1
  /\ timers' = Navigated(Aged(timers))
  /\ UNCHANGED <<answers, isAnalyzing, analysisResult, error, inflight,
                 route, toggled, report>>
  /\ UNCHANGED <<wholeCatalog, clock, appVars>>

\* a click on Next / Analyze Case, which is disabled unless canProceed()
handleNext ==
  /\ Mounted /\ ShowsForm /\ UserEventFits
  /\ canProceed
  /\ IF currentQuestion < Len(QUESTIONS) - 1
     THEN /\ currentQuestion' = currentQuestion + 1
          /\ UNCHANGED <<isAnalyzing, error, inflight>>
     ELSE /\ submitCase
          /\ UNCHANGED currentQuestion
  /\ timers' = Navigated(Aged(timers))
  /\ UNCHANGED <<answers, analysisResult, route, toggled, report>>
  /\ UNCHANGED <<wholeCatalog, clock, appVars>>

handleBackToStart ==
  /\ Mounted /\ ShowsForm /\ UserEventFits
  /\ IF currentQuestion > 0
     THEN currentQuestion' = 0 /\ UNCHANGED route
     ELSE route' = "/home" /\ UNCHANGED currentQuestion
  /\ timers' = Navigated(Aged(timers))
  /\ UNCHANGED <<answers, isAnalyzing, analysisResult, error,
                 inflight, toggled, report>>
  /\ UNCHANGED <<wholeCatalog, clock, appVars>>

\* a click on Back / Cancel
handleBack ==
  /\ Mounted /\ ShowsForm /\ UserEventFits
  /\ IF currentQuestion > 0
     THEN currentQuestion' = currentQuestion - 1 /\ UNCHANGED route
     ELSE route' = "/home" /\ UNCHANGED currentQuestion
  /\ timers' = Navigated(Aged(timers))
  /\ UNCHANGED <<answers, isAnalyzing, analysisResult, error,
                 inflight, toggled, report>>
  /\ UNCHANGED <<wholeCatalog, clock, appVars>>

\* the responses the analysis service may give to a request
Level8 == <<"L","e","v","e","l"," ","8">>
Moderate == <<"M","o","d","e","r","a","t","e">>
HighPriority == <<"H","i","g","h"," ","p","r","i","o","r","i","t","y">>
ImmediateAction == <<"I","m","m","e","d","i","a","t","e"," ","a","c","t","i","o","n">>
FileStep == <<"1","."," ","F","i","l","e">>
TalkStep == <<"T","a","l","k">>
Responses ==
  {Result(Level8, <<HighPriority>>, <<FileStep>>),
   Result(Moderate, <<ImmediateAction>>, <<TalkStep>>)}

Remove(seq, i) == SubSeq(seq, 1, i - 1) \o SubSeq(seq, i + 1, Len(seq))

\* the fetch of request i resolves with a 2xx response carrying result
ResponseOk(i, result) ==
  /\ Mounted
  /\ i \in 1..Len(inflight)
  /\ result \in Responses
  /\ analysisResult' = result
  /\ inflight' = Remove(inflight, i)
  /\ UNCHANGED <<currentQuestion, answers, isAnalyzing, error, timers,
                 route, toggled, report>>
  /\ UNCHANGED <<wholeCatalog, clock, appVars>>

\* the fetch of request i resolves with a non-2xx response, or rejects: the
\* catch block runs
ResponseFails(i) ==
  /\ Mounted
  /\ i \in 1..Len(inflight)
  /\ error' = ErrorMessage
  /\ isAnalyzing' = FALSE
  /\ inflight' = Remove(inflight, i)
  /\ timers' = [k \in 1..Len(timers) |-> [timers[k] EXCEPT !.failedSince = TRUE]]
  /\ UNCHANGED <<currentQuestion, answers, analysisResult,
                 route, toggled, report>>
  /\ UNCHANGED <<wholeCatalog, clock, appVars>>

\* a click on Start New Case in the results view
StartNewCase ==
  /\ Mounted /\ ShowsResults /\ UserEventFits
  /\ analysisResult' = NullResult
  /\ currentQuestion' = 0
  /\ answers' = EmptyAnswers
  /\ toggled' = {}
  /\ timers' = Aged(timers)
  /\ UNCHANGED <<isAnalyzing, error, inflight, route, report>>
  /\ UNCHANGED <<wholeCatalog, clock, appVars>>

\* a click on Return Home in the results view
ReturnHome ==
  /\ Mounted /\ ShowsResults /\ UserEventFits
  /\ route' = "/home"
  /\ timers' = Aged(timers)
  /\ UNCHANGED <<currentQuestion, answers, isAnalyzing, analysisResult, error,
                 inflight, toggled, report>>
  /\ UNCHANGED <<wholeCatalog, clock, appVars>>

DownloadReportRefetch ==
  /\ Mounted /\ ShowsResults /\ UserEventFits
  /\ report' = ReportDocument(analysisResult)
  /\ timers' = Aged(timers)
  /\ inflight' = Append(inflight, Post(answers))
  /\ UNCHANGED <<currentQuestion, answers, isAnalyzing, analysisResult, error,
                 route, toggled>>
  /\ UNCHANGED <<wholeCatalog, clock, appVars>>

\* a click on Download PDF Report in the results view
DownloadReport ==
  /\ Mounted /\ ShowsResults /\ UserEventFits
  /\ report' = ReportDocument(analysisResult)
  /\ timers' = Aged(timers)
  /\ UNCHANGED <<currentQuestion, answers, isAnalyzing, analysisResult, error,
                 inflight, route, toggled>>
  /\ UNCHANGED <<wholeCatalog, clock, appVars>>

\* userData of login(userData): { phone, verified: true }, named by its phone
Users == {"+919000000001", "+919000000002"}

\* values of the stored item: none, the empty string, JSON.stringify(value),
\* or a text that is no JSON
Absent == [kind |-> "absent", of |-> Null]
EmptyText == [kind |-> "empty", of |-> Null]
Corrupt == [kind |-> "corrupt", of |-> Null]
stringify(value) == [kind |-> "json", of |-> value]

\* the wizard runs inside a protected route: a user is signed in
SignedIn ==
  /\ user = "+919000000001"
  /\ isAuthenticated = TRUE
  /\ isLoading = FALSE
  /\ sessionStorage = stringify(user)
  /\ location = "/intake"
  /\ authCall = "none"
  /\ authActed = TRUE

Init ==
  /\ wholeCatalog = FALSE
  /\ currentQuestion = 0
  /\ answers = EmptyAnswers
  /\ isAnalyzing = FALSE
  /\ analysisResult = NullResult
  /\ error = Null
  /\ timers = <<>>
  /\ inflight = <<>>
  /\ route = "/intake"
  /\ toggled = {}
  /\ report = NoReport
  /\ clock = 0
  /\ SignedIn

Next ==
  \/ \E value \in Options(question) : handleSelect(value)
  \/ TimerFires
  \/ handleNext
  \/ handleBack
  \/ \E i \in 1..MaxInFlight : \E result \in Responses : ResponseOk(i, result)
  \/ \E i \in 1..MaxInFlight : ResponseFails(i)
  \/ StartNewCase
  \/ ReturnHome

Spec == Init /\ [][Next]_vars

(***************************************************************************)
(* The renderings of a stored result, explored from the state a successful *)
(* submission leaves: every question answered, the last question shown,    *)
(* the loading flag still set, and a result of the service stored.         *)
(***************************************************************************)
\* digits a generated severity tier may carry
MaxDigits == 2

DigitSet == {Digits[i] : i \in 1..10}
DigitStrings == UNION {[1..n -> DigitSet] : n \in 1..MaxDigits}

SeverityTiers ==
  {LevelPrefix \o d : d \in DigitStrings}
    \cup {Moderate, <<>>, <<"L","e","v","e","l">>, <<"L","e","v","e","l"," ">>,
          <<"l","e","v","e","l"," ","9">>, <<"L","e","v","e","l"," ","X">>,
          <<"T","i","e","r"," ","2",":"," ","L","e","v","e","l"," ","7">>,
          <<"L","e","v","e","l"," ","8","/","1","0">>,
          <<"L","e","v","e","l"," "," ","9">>}

HighPriorityImmediate ==
  <<"H","i","g","h"," ","p","r","i","o","r","i","t","y",","," ",
    "i","m","m","e","d","i","a","t","e">>
MediumTerm == <<"M","e","d","i","u","m"," ","t","e","r","m">>

Urgencies ==
  {HighPriority, ImmediateAction, HighPriorityImmediate, MediumTerm,
   <<"H","I","G","H">>, <<"h","i","g","h">>, <<"h","i","g">>,
   <<"I","M","M","E","D","I","A","T","E">>, <<"L","o","w">>, <<>>}

Checklists == {<<>>} \cup {<<u>> : u \in Urgencies}
                \cup {<<ImmediateAction, HighPriority>>}

StepNoSpace == <<"2",".","G","o">>
StepTwoDigits == <<"1","0","."," "," ","X">>
StepNoPeriod == <<"1"," ","F","i","l","e">>
StepPeriodOnly == <<"."," ","x">>
StepBare == <<"3",".">>
StepDash == <<"-"," ","1","."," ","a">>
StepTab == <<"1",".","\t","A">>
StepTwice == <<"1","."," ","2","."," ","b">>

Steps ==
  {FileStep, TalkStep, StepNoSpace, StepTwoDigits, StepNoPeriod, StepPeriodOnly,
   StepBare, StepDash, StepTab, StepTwice}

StepLists == {<<>>} \cup {<<x>> : x \in Steps}
               \cup {<<FileStep, TalkStep>>, <<TalkStep, FileStep>>}

\* an answer map with every question answered by its first option
FirstAnswers ==
  [k \in Ids |->
     LET q == QUESTIONS[CHOOSE i \in 1..Len(QUESTIONS) : QUESTIONS[i].id = k]
     IN IF q.type = "multiselect" THEN Arr(<<q.options[1]>>) ELSE Str(q.options[1])]

InitRender ==
  /\ wholeCatalog = FALSE
  /\ currentQuestion = Len(QUESTIONS) - 1
  /\ answers = FirstAnswers
  /\ isAnalyzing = TRUE
  /\ analysisResult \in
       {Result(t, c, <<>>) : t \in SeverityTiers, c \in Checklists}
         \cup {Result(Level8, <<>>, l) : l \in StepLists}
  /\ error = Null
  /\ timers = <<>>
  /\ inflight = <<>>
  /\ route = "/intake"
  /\ toggled = {QuestionAt(0).options[1]}
  /\ report = NoReport
  /\ clock = 0
  /\ SignedIn

NextRender ==
  \/ DownloadReport
  \/ StartNewCase
  \/ ReturnHome

SpecRender == InitRender /\ [][NextRender]_vars

(***************************************************************************)
(* Properties.                                                             *)
(***************************************************************************)
\* the submission phase, read off the state as the component's returns do
Phase ==
  IF analysisResult.set THEN "succeeded"
  ELSE IF isAnalyzing THEN "submitting"
  ELSE IF error # Null THEN "failed"
  ELSE "editing"

LastIndex == Len(QUESTIONS) - 1
MultiIds == {QUESTIONS[i].id : i \in {j \in 1..Len(QUESTIONS) : QUESTIONS[j].type = "multiselect"}}

\* C1: at most one analysis request is in flight at any time.
AtMostOneInFlight == Len(inflight) <= 1

\* C2: Start New Case, taken in the succeeded phase, yields a fresh editing
\* state: no answers, index 0, no stored result, and the question form shown.
StartNewCaseIsFresh ==
  [][StartNewCase =>
       /\ answers' = EmptyAnswers
       /\ currentQuestion' = 0
       /\ ~analysisResult'.set
       /\ Phase' = "editing"]_vars

\* C3: a multi-select key that is present in the answer map maps to a
\* non-empty collection, and it is present only once the user has made a
\* selection on that question.
MultiSelectNeverEmpty ==
  \A k \in MultiIds :
    answers[k].t # "undefined" =>
      /\ answers[k].t = "array"
      /\ Len(answers[k].a) > 0

\* C4: for every checklist document, the urgency class of the printed report
\* equals the urgency class of the results view.
UrgencyClassesAgree ==
  (report.written /\ analysisResult.set)
    => report.urgency = ResultsView(analysisResult).urgency

\* C5: for every severity_tier string, the severity class of the printed
\* report equals the severity class of the results view.
SeverityClassesAgree ==
  (report.written /\ analysisResult.set)
    => report.severity = ResultsView(analysisResult).severity

SeverityClassesAgreeWitness ==
  /\ report.written /\ analysisResult.set
  /\ LevelMatches(analysisResult.severity_tier) # {}
  /\ severityLevel(analysisResult.severity_tier) = 8
  /\ report.severity = "severity-critical"

\* the auto-advance callback at the head of the queue was scheduled on the
\* last question
LastQuestionTimerDue ==
  timers # <<>> /\ Head(timers).currentQuestion = LastIndex

\* C6: when the auto-advance of a selection of v on the last question fires,
\* the phase becomes submitting and the request issued carries exactly the
\* answer map as the selection left it (the map at selection time with the
\* last question's key set to v).
AutoAdvanceSubmitsSelection ==
  [][(LastQuestionTimerDue /\ TimerFires) =>
       /\ Phase' = "submitting"
       /\ Len(inflight') = Len(inflight) + 1
       /\ inflight'[Len(inflight')].body = Head(timers).selected
       /\ inflight'[Len(inflight')].body[QuestionAt(LastIndex).id] = Str(Head(timers).value)]_vars

\* C7: when a submission fails, the phase becomes failed with the fixed
\* message, and answers and currentQuestion are what they were before the
\* submission started.
FailureKeepsWizardState ==
  [][\A i \in 1..Len(inflight) :
       ResponseFails(i) =>
         /\ Phase' = "failed"
         /\ error' = ErrorMessage
         /\ answers' = inflight[i].answersBefore
         /\ currentQuestion' = inflight[i].indexBefore]_vars

PhaseEdges ==
  {<<"editing", "submitting">>, <<"submitting", "succeeded">>,
   <<"submitting", "failed">>, <<"failed", "editing">>,
   <<"failed", "submitting">>, <<"succeeded", "editing">>}

\* C8: the phase changes only along the edges of PhaseEdges, and from
\* succeeded to editing only by Start New Case.
PhaseChangesAlongEdges ==
  [][Phase' # Phase =>
       /\ <<Phase, Phase'>> \in PhaseEdges
       /\ Phase = "succeeded" => StartNewCase]_vars

\* C9: for every single-select question and option, canProceed() is true
\* right after handleSelect, before the auto-advance callback runs.
SelectEnablesAdvance ==
  [][\A value \in Options(question) :
       (question.type = "select" /\ handleSelect(value)) => canProceed']_vars

SelectEnablesAdvanceWitness ==
  /\ question.type = "select"
  /\ timers # <<>>
  /\ timers[Len(timers)].age = 0
  /\ timers[Len(timers)].currentQuestion = currentQuestion
  /\ answers[question.id] = Str(timers[Len(timers)].value)
  /\ canProceed

\* C10: on a multi-select question canProceed() is true exactly when at least
\* one option is currently toggled on.
MultiSelectAdvanceIffToggledOn ==
  question.type = "multiselect" => (canProceed <=> toggled # {})

MultiSelectAdvanceIffToggledOnWitness ==
  /\ question.type = "multiselect"
  /\ answers[question.id].t = "array"
  /\ toggled = {}
  /\ ~canProceed
  /\ Mounted /\ ShowsForm

\* the closures of the pending callbacks, without their age
Closures(ts) ==
  [i \in 1..Len(ts) |->
     [currentQuestion |-> ts[i].currentQuestion, answers |-> ts[i].answers,
      value |-> ts[i].value]]

\* C11: handleBack at question 0 changes no wizard state and only navigates
\* away; at a later question it decrements currentQuestion by exactly 1 and
\* changes nothing else.
RetreatFrame ==
  [][handleBack =>
       /\ answers' = answers
       /\ isAnalyzing' = isAnalyzing
       /\ analysisResult' = analysisResult
       /\ error' = error
       /\ Phase' = Phase
       /\ inflight' = inflight
       /\ Closures(timers') = Closures(timers)
       /\ IF currentQuestion = 0
          THEN currentQuestion' = 0 /\ route' = "/home"
          ELSE currentQuestion' = currentQuestion - 1 /\ route' = route]_vars

RetreatFrameWitness ==
  /\ route = "/home"
  /\ ~analysisResult.set
  /\ currentQuestion = 0
  /\ \E k \in Ids : answers[k].t # "undefined"

\* C16: Next / Analyze Case acts only when canProceed() holds; on a question
\* that is not the last it increments currentQuestion by exactly 1 and issues
\* no request; on the last it issues one request carrying the current answer
\* map and leaves currentQuestion unchanged.
AdvanceContract ==
  [][handleNext =>
       /\ canProceed
       /\ answers' = answers
       /\ IF currentQuestion < LastIndex
          THEN /\ currentQuestion' = currentQuestion + 1
               /\ inflight' = inflight
               /\ isAnalyzing' = isAnalyzing
          ELSE /\ currentQuestion' = currentQuestion
               /\ Len(inflight') = Len(inflight) + 1
               /\ SubSeq(inflight', 1, Len(inflight)) = inflight
               /\ inflight'[Len(inflight')].body = answers
               /\ isAnalyzing']_vars

AdvanceContractWitness ==
  /\ currentQuestion = LastIndex
  /\ isAnalyzing
  /\ timers = <<>>
  /\ Len(inflight) = 1
  /\ inflight[1].body = answers
  /\ error = Null
  /\ ~analysisResult.set

\* C17: 0 <= currentQuestion < QUESTIONS.length in every reachable state.
IndexInRange ==
  currentQuestion \in 0..(Len(QUESTIONS) - 1)

\* the user has retreated while a callback scheduled on a later question is
\* still pending
IndexInRangeWitness ==
  /\ timers # <<>>
  /\ Head(timers).currentQuestion > currentQuestion
  /\ Mounted /\ ShowsForm

\* C20: a stored result is never replaced or changed; it is only discarded
\* by Start New Case.
ResultImmutable ==
  [][analysisResult.set =>
       (analysisResult' = analysisResult
          \/ (StartNewCase /\ analysisResult' = NullResult))]_vars

\* the answer a question needs for Next / Analyze Case to be enabled on it
Answered(map, q) ==
  IF q.type = "multiselect"
  THEN Len(ArrayOrEmpty(map[q.id])) > 0
  ELSE map[q.id].t = "string" /\ map[q.id].s # ""

\* Next on the question shown and on every later one, and then Analyze Case,
\* are enabled without a further selection
Resubmittable ==
  \A i \in currentQuestion..LastIndex : Answered(answers, QuestionAt(i))

\* C18: when its network call resolves or errors, a submission ends in
\* succeeded or failed; and in failed the question form is shown with the
\* answers intact, so that a new submission can be started without
\* re-answering.
FailureIsRetryable ==
  [][\A i \in 1..Len(inflight) :
       /\ (\E result \in Responses : ResponseOk(i, result)) => Phase' = "succeeded"
       /\ ResponseFails(i) =>
            /\ Phase' \in {"failed", "succeeded"}
            /\ Phase' = "failed" =>
                 /\ ShowsForm'
                 /\ error' = ErrorMessage
                 /\ answers' = answers
                 /\ Resubmittable']_vars

\* C19: each submit invocation issues exactly one request, a failure issues
\* none, and a request issued by an auto-advance callback stems from a
\* selection made after the latest failure.
NoAutomaticRetry ==
  [][/\ Len(inflight') > Len(inflight) =>
          /\ Len(inflight') = Len(inflight) + 1
          /\ handleNext \/ TimerFires
     /\ \A i \in 1..Len(inflight) :
          ResponseFails(i) => Len(inflight') = Len(inflight) - 1
     /\ (LastQuestionTimerDue /\ TimerFires) => ~Head(timers).failedSince]_vars

\* the class the claim gives level n
SeverityClassOf(n) ==
  IF n >= 8 THEN "severity-critical"
  ELSE IF 6 <= n /\ n < 8 THEN "severity-high"
  ELSE "severity-moderate"

\* tier strings in which /Level (\d+)/ finds no match
UnmatchedTiers ==
  {Moderate, <<>>, <<"L","e","v","e","l">>, <<"L","e","v","e","l"," ">>,
   <<"l","e","v","e","l"," ","9">>, <<"L","e","v","e","l"," ","X">>,
   <<"L","e","v","e","l"," "," ","9">>}

\* C12: the severity class of the results view is critical iff N >= 8, high
\* iff 6 <= N < 8 and moderate otherwise, N being the number of 'Level N' and
\* 5 when the tier has no such pattern.
SeverityClassification ==
  analysisResult.set =>
    LET tier == analysisResult.severity_tier
        class == ResultsView(analysisResult).severity
    IN /\ \A n \in 0..(10^MaxDigits - 1) :
            tier = LevelPrefix \o Decimal(n) => class = SeverityClassOf(n)
       /\ tier \in UnmatchedTiers => class = SeverityClassOf(5)
       /\ class = SeverityClassOf(severityLevel(tier))

SeverityClassificationWitness ==
  /\ analysisResult.set
  /\ analysisResult.severity_tier = LevelPrefix \o <<"7">>
  /\ ResultsView(analysisResult).severity = "severity-high"

\* the class the claim gives each urgency string of Urgencies
ExpectedUrgency(urgency) ==
  CASE urgency = HighPriority -> "high"
    [] urgency = ImmediateAction -> "immediate"
    [] urgency = HighPriorityImmediate -> "high"
    [] urgency = MediumTerm -> "medium"
    [] urgency = <<"H","I","G","H">> -> "high"
    [] urgency = <<"h","i","g","h">> -> "high"
    [] urgency = <<"h","i","g">> -> "medium"
    [] urgency = <<"I","M","M","E","D","I","A","T","E">> -> "immediate"
    [] urgency = <<"L","o","w">> -> "medium"
    [] urgency = <<>> -> "medium"

\* C13: in the results view a checklist urgency containing 'high' (in any
\* case) is high, otherwise one containing 'immediate' is immediate,
\* otherwise it is medium.
UrgencyClassification ==
  analysisResult.set =>
    \A i \in 1..Len(analysisResult.smart_document_checklist) :
      ResultsView(analysisResult).urgency[i] =
        ExpectedUrgency(analysisResult.smart_document_checklist[i])

UrgencyClassificationWitness ==
  /\ analysisResult.set
  /\ analysisResult.smart_document_checklist = <<HighPriorityImmediate>>
  /\ ResultsView(analysisResult).urgency = <<"high">>

\* the text the claim gives each step of Steps
ExpectedStep(step) ==
  CASE
       step = FileStep -> <<"F","i","l","e">>
    [] step = TalkStep -> <<"T","a","l","k">>
    [] step = StepNoSpace -> <<"G","o">>
    [] step = StepTwoDigits -> <<"X">>
    [] step = StepNoPeriod -> <<"1"," ","F","i","l","e">>
    [] step = StepPeriodOnly -> <<"."," ","x">>
    [] step = StepBare -> <<>>
    [] step = StepDash -> <<"-"," ","1","."," ","a">>
    [] step = StepTab -> <<"A">>
    [] step = StepTwice -> <<"2","."," ","b">>

\* C14: in the results view and in the report each next step is shown
\* without its leading numeral-and-period prefix and the whitespace after it,
\* a step without such a prefix is shown unchanged, and the order is kept.
StepsNormalized ==
  analysisResult.set =>
    LET expected == [i \in 1..Len(analysisResult.immediate_next_steps) |->
                       ExpectedStep(analysisResult.immediate_next_steps[i])]
    IN /\ ResultsView(analysisResult).steps = expected
       /\ report.written => report.steps = expected

StepsNormalizedWitness ==
  /\ analysisResult.set
  /\ analysisResult.immediate_next_steps = <<FileStep, TalkStep>>
  /\ report.written
  /\ report.steps = <<<<"F","i","l","e">>, <<"T","a","l","k">>>>

\* The end-to-end scenario: a fresh wizard over the whole catalog, whose user
\* answers each question once, in order, and waits for the callback of a
\* selection before the next one.
InitE2E ==
  /\ wholeCatalog = TRUE
  /\ currentQuestion = 0
  /\ answers = EmptyAnswers
  /\ isAnalyzing = FALSE
  /\ analysisResult = NullResult
  /\ error = Null
  /\ timers = <<>>
  /\ inflight = <<>>
  /\ route = "/intake"
  /\ toggled = {}
  /\ report = NoReport
  /\ clock = 0
  /\ SignedIn

Unanswered == timers = <<>> /\ answers[question.id].t = "undefined"

NextE2E ==
  \/ \E value \in Options(question) : Unanswered /\ handleSelect(value)
  \/ TimerFires
  \/ question.type = "multiselect" /\ handleNext
  \/ \E result \in Responses : ResponseOk(1, result)
  \/ DownloadReport

SpecE2E == InitE2E /\ [][NextE2E]_vars

AnsweredCount == Cardinality({k \in Ids : answers[k].t # "undefined"})
Submitted == isAnalyzing /\ (Len(inflight) = 1 \/ analysisResult.set)
CriticalShown ==
  /\ ShowsResults
  /\ ResultsView(analysisResult).severity = "severity-critical"
  /\ report.written => report.severity = "severity-critical"

\* C15 as stated: once 11 questions of the catalog have been answered in
\* order and their callbacks have run, the intake has been submitted; a
\* stored result of tier 'Level 8' shows the critical badge in view and report.
EndToEndEleven ==
  /\ (AnsweredCount >= 11 /\ timers = <<>>) => Submitted
  /\ (analysisResult.set /\ analysisResult.severity_tier = Level8) => CriticalShown

\* C15, amended: the catalog has 12 questions; nothing is submitted before
\* all 12 are answered, and once all 12 have been answered in order and their
\* callbacks have run the intake has been submitted, with a request that
\* carries the 12 answers; a stored result of tier 'Level 8' shows the
\* critical badge in the results view and in the report.
EndToEndTwelve ==
  /\ Len(QUESTIONS) = 12 /\ Cardinality(Ids) = 12
  /\ AnsweredCount < 12 => (~Submitted /\ inflight = <<>> /\ ~analysisResult.set)
  /\ (AnsweredCount = 12 /\ timers = <<>>) => Submitted
  /\ \A i \in 1..Len(inflight) :
       \A k \in Ids : inflight[i].body[k].t # "undefined"
  /\ (analysisResult.set /\ analysisResult.severity_tier = Level8) => CriticalShown

EndToEndTwelveWitness ==
  /\ wholeCatalog
  /\ AnsweredCount = 12
  /\ analysisResult.set /\ analysisResult.severity_tier = Level8
  /\ ResultsView(analysisResult).severity = "severity-critical"
  /\ report.written /\ report.severity = "severity-critical"

\* The report scenario: a result is shown, possibly while a second request
\* is still outstanding; the user downloads the report any number of times
\* while time passes and the outstanding request resolves.
ReportResults ==
  {Result(t, c, l) : t \in {Level8, Moderate},
                     c \in {<<HighPriority>>, <<ImmediateAction>>},
                     l \in {<<FileStep>>, <<TalkStep>>}}

ClockAdvances ==
  /\ clock < MaxClock
  /\ clock' = clock + 1
  /\ UNCHANGED <<wholeCatalog, currentQuestion, answers, isAnalyzing, analysisResult,
                 error, timers, inflight, route, toggled, report, appVars>>

InitReport ==
  /\ wholeCatalog = FALSE
  /\ currentQuestion = Len(QUESTIONS) - 1
  /\ answers = FirstAnswers
  /\ isAnalyzing = TRUE
  /\ analysisResult \in ReportResults
  /\ error = Null
  /\ timers = <<>>
  /\ inflight \in {<<>>, <<Post(answers)>>}
  /\ route = "/intake"
  /\ toggled = {QuestionAt(0).options[1]}
  /\ report = NoReport
  /\ clock = 0
  /\ SignedIn

NextReport ==
  \/ DownloadReport
  \/ ClockAdvances
  \/ \E result \in Responses : ResponseOk(1, result)
  \/ ResponseFails(1)
  \/ StartNewCase
  \/ ReturnHome

SpecReport == InitReport /\ [][NextReport]_vars

ReportFrame ==
  [][DownloadReport =>
       /\ inflight' = inflight
       /\ answers' = answers
       /\ currentQuestion' = currentQuestion
       /\ Phase' = Phase
       /\ error' = error
       /\ isAnalyzing' = isAnalyzing
       /\ analysisResult' = analysisResult
       /\ route' = route
       /\ Closures(timers') = Closures(timers)
       /\ report'.of = analysisResult /\ report'.at = clock
       /\ report'.generated = toLocaleDateString(clock)]_vars

ReportFrameWitness ==
  /\ report.written /\ report.of = analysisResult
  /\ Len(inflight) = 1
  /\ answers = FirstAnswers
  /\ Phase = "succeeded"

\* C22: a pending auto-advance does not set the index once the user has
\* navigated (Next or Back) after the selection that scheduled it.
StaleAdvanceCancelled ==
  [][(TimerFires /\ Head(timers).navigated) => currentQuestion' = currentQuestion]_vars

\* C23: when the callback of a selection on a question that is not the last
\* fires with no user action since the selection, the wizard then shows the
\* question following the one answered, and no request has been issued.
AutoAdvanceShowsNext ==
  [][(/\ TimerFires
      /\ Head(timers).age = 0
      /\ Head(timers).currentQuestion < LastIndex)
       => /\ currentQuestion' = Head(timers).currentQuestion + 1
          /\ ShowsForm'
          /\ inflight' = <<>>]_vars

\* C24: a toggle on a multi-select question changes that question's entry of
\* the answer map and nothing else: index and phase stay, no callback is
\* scheduled, no request is issued, every other answer stays.
ToggleFrame ==
  [][((\E value \in Options(question) : handleSelect(value))
        /\ question.type = "multiselect")
       => /\ currentQuestion' = currentQuestion
          /\ Phase' = Phase
          /\ Closures(timers') = Closures(timers)
          /\ inflight' = inflight
          /\ answers'[question.id] # answers[question.id]
          /\ \A k \in Ids \ {question.id} : answers'[k] = answers[k]]_vars

ToggleFrameWitness ==
  /\ question.type = "multiselect"
  /\ timers # <<>>
  /\ toggled # {}
  /\ Head(timers).answers[question.id] # answers[question.id]
  /\ \E k \in Ids \ {question.id} : answers[k].t = "string"

\* C25: a multi-select answer holds no option twice, and holds exactly the
\* options toggled an odd number of times (a second toggle of an option
\* restores its membership).
NoDuplicateOptions ==
  \A k \in MultiIds :
    LET a == ArrayOrEmpty(answers[k])
    IN /\ \A i, j \in 1..Len(a) : a[i] = a[j] => i = j
       /\ {a[i] : i \in 1..Len(a)} = toggled

NoDuplicateOptionsWitness ==
  \E k \in MultiIds :
    /\ Len(ArrayOrEmpty(answers[k])) = 1
    /\ Cardinality(toggled) = 1
    /\ \E i \in 1..Len(timers) : Len(ArrayOrEmpty(timers[i].answers[k])) = 2

\* C27: every request carries a present, non-empty answer for every question
\* of the catalog: a string for a single-select question, a non-empty array
\* for a multi-select one.
RequestsComplete ==
  \A i \in 1..Len(inflight) :
    \A n \in 1..Len(QUESTIONS) : Answered(inflight[i].body, QUESTIONS[n])

\* C28: while a request is in flight the loading flag is true and no error is
\* set, and no error is set while a result is stored.
LoadingWhileInFlight ==
  /\ inflight # <<>> => (isAnalyzing /\ error = Null)
  /\ analysisResult.set => error = Null

\* C29: Next, Back and a firing auto-advance leave the answer map as it was;
\* only a selection or toggle on the current question, or Start New Case,
\* changes it.
NavigationKeepsAnswers ==
  [][/\ (handleNext \/ handleBack \/ TimerFires) => answers' = answers
     /\ answers' # answers =>
          \/ StartNewCase
          \/ /\ \E value \in Options(question) : handleSelect(value)
             /\ \A k \in Ids \ {question.id} : answers'[k] = answers[k]]_vars

NavigationKeepsAnswersWitness ==
  /\ currentQuestion = 0
  /\ timers = <<>>
  /\ inflight = <<>>
  /\ Mounted /\ ShowsForm
  /\ \A k \in Ids : answers[k].t # "undefined"

(***************************************************************************)
(* AuthProvider and the route guards (App.jsx).                            *)
(***************************************************************************)
Paths == {"/", "/login", "/home", "/intake", "/sms", "/talent", "/about"}
ProtectedPages == {"DashboardHome", "IntakeFlow", "SMSSimulator", "TalentDashboard"}

NavigateTo(path) == "Navigate " \o path

ProtectedRouteOpen(children) ==
  IF isLoading THEN "LoadingScreen" ELSE children

\* what <ProtectedRoute>children</ProtectedRoute> renders
ProtectedRoute(children) ==
  IF isLoading THEN "LoadingScreen"
  ELSE IF ~isAuthenticated THEN NavigateTo("/login")
  ELSE children

\* what <PublicRoute>children</PublicRoute> renders
PublicRoute(children) ==
  IF isLoading THEN "LoadingScreen"
  ELSE IF isAuthenticated THEN NavigateTo("/home")
  ELSE children

\* the element <Routes> renders for the current location
Rendered ==
  CASE location = "/" -> NavigateTo("/login")
    [] location = "/login" -> PublicRoute("LoginPage")
    [] location = "/home" -> ProtectedRoute("DashboardHome")
    [] location = "/intake" -> ProtectedRoute("IntakeFlow")
    [] location = "/sms" -> ProtectedRoute("SMSSimulator")
    [] location = "/talent" -> ProtectedRoute("TalentDashboard")
    [] OTHER -> NavigateTo("/login")

\* the mount effect of AuthProvider; its updates are applied together
checkAuth ==
  /\ isLoading /\ authCall = "none"
  /\ IF sessionStorage.kind = "json"
     THEN /\ user' = sessionStorage.of
          /\ isAuthenticated' = TRUE
          /\ UNCHANGED sessionStorage
     ELSE IF sessionStorage.kind = "corrupt"
     THEN /\ sessionStorage' = Absent
          /\ UNCHANGED <<user, isAuthenticated>>
     ELSE UNCHANGED <<user, isAuthenticated, sessionStorage>>
  /\ isLoading' = FALSE
  /\ UNCHANGED <<location, authCall, authActed>>
  /\ UNCHANGED wizardVars

\* login(userData), called by the login page after its await; the two state
\* updates are applied together when the build batches them
login(userData) ==
  /\ Rendered = "LoginPage" /\ authCall = "none"
  /\ user' = userData
  /\ isAuthenticated' = TRUE
  /\ sessionStorage' = stringify(userData)
  /\ authActed' = TRUE
  /\ UNCHANGED <<isLoading, location, authCall>>
  /\ UNCHANGED wizardVars

\* login(userData) when the updates are not batched: setUser is rendered
\* before setIsAuthenticated runs
loginSetUser(userData) ==
  /\ Rendered = "LoginPage" /\ authCall = "none"
  /\ user' = userData
  /\ authCall' = "login"
  /\ UNCHANGED <<isAuthenticated, isLoading, sessionStorage, location, authActed>>
  /\ UNCHANGED wizardVars

loginSetIsAuthenticated ==
  /\ authCall = "login"
  /\ isAuthenticated' = TRUE
  /\ sessionStorage' = stringify(user)
  /\ authCall' = "none"
  /\ authActed' = TRUE
  /\ UNCHANGED <<user, isLoading, location>>
  /\ UNCHANGED wizardVars

\* logout(), offered by the context to the pages of the protected routes
logout ==
  /\ Rendered \in ProtectedPages /\ authCall = "none"
  /\ user' = Null
  /\ isAuthenticated' = FALSE
  /\ sessionStorage' = Absent
  /\ authActed' = TRUE
  /\ UNCHANGED <<isLoading, location, authCall>>
  /\ UNCHANGED wizardVars

logoutSetUser ==
  /\ Rendered \in ProtectedPages /\ authCall = "none"
  /\ user' = Null
  /\ authCall' = "logout"
  /\ UNCHANGED <<isAuthenticated, isLoading, sessionStorage, location, authActed>>
  /\ UNCHANGED wizardVars

logoutSetIsAuthenticated ==
  /\ authCall = "logout"
  /\ isAuthenticated' = FALSE
  /\ sessionStorage' = Absent
  /\ authCall' = "none"
  /\ authActed' = TRUE
  /\ UNCHANGED <<user, isLoading, location>>
  /\ UNCHANGED wizardVars

\* <Navigate to=... replace /> takes effect
Redirect ==
  /\ authCall = "none"
  /\ \E path \in Paths : Rendered = NavigateTo(path) /\ location' = path
  /\ UNCHANGED <<user, isAuthenticated, isLoading, sessionStorage, authCall, authActed>>
  /\ UNCHANGED wizardVars

\* a link or navigate(path) changes the location
Goto(path) ==
  /\ authCall = "none" /\ ~isLoading
  /\ path \in Paths /\ path # location
  /\ location' = path
  /\ UNCHANGED <<user, isAuthenticated, isLoading, sessionStorage, authCall, authActed>>
  /\ UNCHANGED wizardVars

\* the page is loaded again at path: the providers are mounted anew, the
\* session storage is kept
Reload(path) ==
  /\ authCall = "none"
  /\ path \in Paths
  /\ location' = path
  /\ user' = Null
  /\ isAuthenticated' = FALSE
  /\ isLoading' = TRUE
  /\ UNCHANGED <<sessionStorage, authCall, authActed>>
  /\ UNCHANGED wizardVars

InitApp ==
  /\ wholeCatalog = FALSE
  /\ currentQuestion = 0
  /\ answers = EmptyAnswers
  /\ isAnalyzing = FALSE
  /\ analysisResult = NullResult
  /\ error = Null
  /\ timers = <<>>
  /\ inflight = <<>>
  /\ route = "/intake"
  /\ toggled = {}
  /\ report = NoReport
  /\ clock = 0
  /\ user = Null
  /\ isAuthenticated = FALSE
  /\ isLoading = TRUE
  /\ sessionStorage \in {Absent, EmptyText, Corrupt, stringify(Null)}
                          \cup {stringify(u) : u \in Users}
  /\ location \in Paths
  /\ authCall = "none"
  /\ authActed = FALSE

NextApp ==
  \/ checkAuth
  \/ \E userData \in Users : login(userData)
  \/ \E userData \in Users : loginSetUser(userData)
  \/ loginSetIsAuthenticated
  \/ logout
  \/ logoutSetUser
  \/ logoutSetIsAuthenticated
  \/ Redirect
  \/ \E path \in Paths : Goto(path)
  \/ \E path \in Paths : Reload(path)

SpecApp == InitApp /\ [][NextApp]_vars

\* C30: a protected page is rendered only when isLoading is false and
\* isAuthenticated is true, the login page only when isLoading is false and
\* isAuthenticated is false, and once a login or logout call has completed
\* isAuthenticated is true exactly when user is not null.
RouteGuard ==
  /\ Rendered \in ProtectedPages => (~isLoading /\ isAuthenticated)
  /\ Rendered = "LoginPage" => (~isLoading /\ ~isAuthenticated)
  /\ location \in {"/home", "/intake", "/sms", "/talent"} =>
       (Rendered \in ProtectedPages <=> (~isLoading /\ isAuthenticated))
  /\ (authActed /\ authCall = "none") => (isAuthenticated <=> user # Null)

RouteGuardWitness ==
  /\ authActed /\ authCall = "none"
  /\ Rendered = "DashboardHome"
  /\ user \in Users
  /\ sessionStorage = stringify(user)

====
